---- MODULE Spec2Model ----
(***************************************************************************)
(* Model of the crawl engine of seo-tools: 1-scraper.py (main,             *)
(* download_batch, fetch_sitemap_urls, fetch_with_semaphore) together with *)
(* the page identity codec of utils_files.py, the fetch client of          *)
(* utils_requests.py and the HTML helpers of utils_html.py.                *)
(*                                                                         *)
(* Strings of the program are sequences of one-character strings, so that  *)
(* strip, split, join and the status prefix are computed as the code       *)
(* computes them.  A URL is the record urlparse returns for it.            *)
(***************************************************************************)
EXTENDS Integers, Sequences, FiniteSets, TLC

\* ------------------------------------------------------------------ bounds
MAX_PAGES == 3
PARALLELISM == 2
\* the page files a directory holds when the codec is exercised on its own
MaxFiles == 3

\* ------------------------------------------------------- program constants
MAX_HOPS == 5

\* ------------------------------------------------------------ string tools
\* The helpers are functions, so that an argument is a value when the body
\* reads it.
DigitChars == <<"0", "1", "2", "3", "4", "5", "6", "7", "8", "9">>
Str == Seq(STRING)

LStripF[s \in Str, c \in STRING] ==
  IF s # <<>> /\ Head(s) = c THEN LStripF[Tail(s), c] ELSE s

\* str.lstrip(c)
LStrip(s, c) == LStripF[s, c]

RStripF[s \in Str, c \in STRING] ==
  IF s # <<>> /\ s[Len(s)] = c THEN RStripF[SubSeq(s, 1, Len(s) - 1), c] ELSE s

\* str.rstrip(c)
RStrip(s, c) == RStripF[s, c]

\* str.strip(c)
Strip(s, c) == RStripF[LStripF[s, c], c]

SplitF[s \in Str, c \in STRING, cur \in Str] ==
  IF s = <<>> THEN <<cur>>
  ELSE IF Head(s) = c THEN <<cur>> \o SplitF[Tail(s), c, <<>>]
  ELSE SplitF[Tail(s), c, Append(cur, Head(s))]

\* str.split(c): "a//b" gives ["a", "", "b"], "" gives [""]
Split(s, c) == SplitF[s, c, <<>>]

IndexOfF[s \in Str, c \in STRING, i \in Nat] ==
  IF i > Len(s) THEN 0 ELSE IF s[i] = c THEN i ELSE IndexOfF[s, c, i + 1]

Split1F[s \in Str, i \in Nat] ==
  IF i = 0 THEN <<s>> ELSE <<SubSeq(s, 1, i - 1), SubSeq(s, i + 1, Len(s))>>

\* str.split(c, 1): cut at the first c only
Split1(s, c) == Split1F[s, IndexOfF[s, c, 1]]

JoinF[parts \in Seq(Str), c \in STRING] ==
  IF parts = <<>> THEN <<>>
  ELSE IF Len(parts) = 1 THEN parts[1]
  ELSE parts[1] \o <<c>> \o JoinF[Tail(parts), c]

\* c.join(parts)
Join(parts, c) == JoinF[parts, c]

IsDigitF[s \in Str] ==
  s # <<>> /\ \A i \in 1..Len(s) : \E d \in 1..10 : DigitChars[d] = s[i]

\* str.isdigit()
IsDigit(s) == IsDigitF[s]

IntToStrF[n \in Int] ==
  IF n < 0 THEN <<"-">> \o IntToStrF[0 - n]
  ELSE IF n < 10 THEN <<DigitChars[n + 1]>>
  ELSE IntToStrF[n \div 10] \o <<DigitChars[(n % 10) + 1]>>

\* str(n)
IntToStr(n) == IntToStrF[n]

EndsWithF[s \in Str, suf \in Str] ==
  Len(s) >= Len(suf) /\ SubSeq(s, Len(s) - Len(suf) + 1, Len(s)) = suf

\* str.endswith(suf)
EndsWith(s, suf) == EndsWithF[s, suf]

LastIndexOfF[s \in Str, c \in STRING, i \in Int] ==
  IF i < 1 THEN 0 ELSE IF s[i] = c THEN i ELSE LastIndexOfF[s, c, i - 1]

PathStemF[name \in Str, i \in Nat] ==
  IF 1 < i /\ i < Len(name) THEN SubSeq(name, 1, i - 1) ELSE name

\* pathlib PurePath.stem: the name without its last suffix
PathStem(name) == PathStemF[name, LastIndexOfF[name, ".", Len(name)]]

HtmlSuffix == <<".", "h", "t", "m", "l">>
IndexSlug == <<"i", "n", "d", "e", "x">>

\* --------------------------------------------------------------------- URLs
\* urlparse(url): scheme, hostname, path and query of an absolute URL
Url(scheme, host, path, query) ==
  [scheme |-> scheme, host |-> host, path |-> path, query |-> query]

\* the empty string: fetch_page's redirect_url when there is no Location
NoUrl == Url("", "", <<>>, "")

SiteHost == "site"
OtherHost == "other"

WEBSITE_URL == Url("https", SiteHost, <<>>, "")

\* WEBSITE_URL.rstrip("/") + "/robots.txt"
RobotsUrl ==
  Url("https", SiteHost, <<"/", "r", "o", "b", "o", "t", "s", ".", "t", "x", "t">>, "")

\* WEBSITE_URL.rstrip("/") + "/sitemap.xml"
SitemapUrl ==
  Url("https", SiteHost, <<"/", "s", "i", "t", "e", "m", "a", "p", ".", "x", "m", "l">>, "")

is_same_domain(url, site_url) == url.host = site_url.host

\* ------------------------------------------------------ page identity codec
\* (mutant) the path is taken without its surrounding slashes being stripped
url_to_path_key_unstripped(url) == IF url.path = <<>> THEN IndexSlug ELSE url.path

url_to_path_key(url) ==
  LET path == Strip(url.path, "/")
  IN IF path = <<>> THEN IndexSlug ELSE path

\* pathlib drops empty and "." components when it joins directories
PathParts(directories) ==
  SelectSeq(directories, LAMBDA d : d # <<>> /\ d # <<".">>)

FilePath(dirs, name) == [dirs |-> dirs, name |-> name]

\* (mutant) a path that ends in a slash names the index page of a directory
get_page_path_index_on_slash(url, status_code) ==
  LET path == LStrip(url.path, "/")
      parts == Split(path, "/")
      last == parts[Len(parts)]
      slug == IF last # <<>> THEN last ELSE IndexSlug
      directories == SubSeq(parts, 1, Len(parts) - 1)
      filename == IntToStr(status_code) \o <<"-">> \o slug \o HtmlSuffix
  IN FilePath(PathParts(directories), filename)

get_page_path(url, status_code) ==
  LET path == Strip(url.path, "/")
      parts == Split(path, "/")
      last == parts[Len(parts)]
      slug == IF last # <<>> THEN last ELSE IndexSlug
      directories == SubSeq(parts, 1, Len(parts) - 1)
      filename == IntToStr(status_code) \o <<"-">> \o slug \o HtmlSuffix
  IN IF path = <<>>
       THEN FilePath(<<>>, IntToStr(status_code) \o <<"-">> \o IndexSlug \o HtmlSuffix)
       ELSE FilePath(PathParts(directories), filename)

\* (mutant) every page is written under status 200
save_page_as_ok(files, url, status_code) == files \cup {get_page_path(url, 200)}

\* write_text creates the file or replaces its content: the directory is the
\* set of the paths that exist
save_page(files, url, status_code) == files \cup {get_page_path(url, status_code)}

save_raw_file(files, filename) == files \cup {FilePath(<<>>, filename)}

IsPageFile(f) == EndsWith(f.name, HtmlSuffix)

\* the key load_existing_pages derives from one *.html file
FileKey(f) ==
  LET stem == PathStem(f.name)
      parts == Split1(stem, "-")
      slug == IF Len(parts) = 2 /\ IsDigit(parts[1]) THEN parts[2] ELSE stem
  IN IF f.dirs # <<>> THEN Join(f.dirs, "/") \o <<"/">> \o slug ELSE slug

\* (mutant) the keys keep the status prefix of the file name
load_existing_stems(files) ==
  {IF f.dirs # <<>> THEN Join(f.dirs, "/") \o <<"/">> \o PathStem(f.name)
                    ELSE PathStem(f.name) : f \in {g \in files : IsPageFile(g)}}

load_existing_pages(files) == {FileKey(f) : f \in {g \in files : IsPageFile(g)}}

PageFiles(files) == {f \in files : IsPageFile(f)}

\* the first index of s that holds a character of C, or 0
FirstIndex(s, C) ==
  LET I == {i \in 1..Len(s) : s[i] \in C}
  IN IF I = {} THEN 0 ELSE CHOOSE i \in I : \A j \in I : i <= j

\* urlparse(text): the parts of a URL given as text.  The scheme ends at the
\* first ":", the host runs from "//" to the first of "/", "?", "#", the
\* fragment starts at the first "#" and the query at the first "?" before it.
urlparse(text) ==
  LET c == FirstIndex(text, {":"})
      hasScheme == c > 1 /\ \A i \in 1..(c - 1) : text[i] \notin {"/", "?", "#"}
      r1 == IF hasScheme THEN SubSeq(text, c + 1, Len(text)) ELSE text
      hasNet == Len(r1) >= 2 /\ r1[1] = "/" /\ r1[2] = "/"
      r2 == IF hasNet THEN SubSeq(r1, 3, Len(r1)) ELSE r1
      e == FirstIndex(r2, {"/", "?", "#"})
      r3 == IF ~hasNet THEN r2 ELSE IF e = 0 THEN <<>> ELSE SubSeq(r2, e, Len(r2))
      h == FirstIndex(r3, {"#"})
      r4 == IF h = 0 THEN r3 ELSE SubSeq(r3, 1, h - 1)
      q == FirstIndex(r4, {"?"})
  IN [scheme |-> IF hasScheme THEN SubSeq(text, 1, c - 1) ELSE <<>>,
      host |-> IF ~hasNet THEN <<>> ELSE IF e = 0 THEN r2 ELSE SubSeq(r2, 1, e - 1),
      path |-> IF q = 0 THEN r4 ELSE SubSeq(r4, 1, q - 1),
      query |-> IF q = 0 THEN <<>> ELSE SubSeq(r4, q + 1, Len(r4)),
      fragment |-> IF h = 0 THEN <<>> ELSE SubSeq(r3, h + 1, Len(r3))]

\* int(prefix) of a string of digits
RECURSIVE StrToInt(_)
StrToInt(s) ==
  IF s = <<>> THEN 0
  ELSE 10 * StrToInt(SubSeq(s, 1, Len(s) - 1))
         + (CHOOSE d \in 0..9 : DigitChars[d + 1] = s[Len(s)])

\* the index of the "]" that closes the character class opened at pat[1],
\* or 0 when the "[" is a plain character
ClassEnd(pat) ==
  LET I == {j \in 3..Len(pat) : pat[j] = "]"}
  IN IF I = {} THEN 0 ELSE CHOOSE j \in I : \A k \in I : j <= k

\* the match of a file name against a glob pattern: "*" is any run of
\* characters, "?" any one character, "[...]" one character of the class
\* ("[!...]" one character outside it), anything else itself
RECURSIVE FnMatch(_, _)
FnMatch(pat, name) ==
  IF pat = <<>> THEN name = <<>>
  ELSE IF Head(pat) = "*"
    THEN FnMatch(Tail(pat), name) \/ (name # <<>> /\ FnMatch(pat, Tail(name)))
  ELSE IF name = <<>> THEN FALSE
  ELSE IF Head(pat) = "?" THEN FnMatch(Tail(pat), Tail(name))
  ELSE IF Head(pat) = "[" /\ ClassEnd(pat) # 0
    THEN LET j == ClassEnd(pat)
             negated == pat[2] = "!"
             class == {pat[k] : k \in (IF negated THEN 3 ELSE 2)..(j - 1)}
         IN /\ (Head(name) \in class) # negated
            /\ FnMatch(SubSeq(pat, j + 1, Len(pat)), Tail(name))
  ELSE Head(pat) = Head(name) /\ FnMatch(Tail(pat), Tail(name))

\* (None, None)
NotFound == [path |-> FilePath(<<>>, <<>>), status |-> -1]

\* find_page_file(base_dir, url): the results the call can give.  The glob
\* yields the matching files of the expected directory in the order of the
\* file system, and the first one with a numeric prefix is returned.
find_page_file(files, url) ==
  LET path == Strip(url.path, "/")
      parts == Split(path, "/")
      last == parts[Len(parts)]
      slug == IF path = <<>> \/ last = <<>> THEN IndexSlug ELSE last
      search_dir == IF path = <<>> THEN <<>>
                    ELSE PathParts(SubSeq(parts, 1, Len(parts) - 1))
      matches == {f \in files :
                    /\ f.dirs = search_dir
                    /\ FnMatch(<<"*", "-">> \o slug \o HtmlSuffix, f.name)}
      numbered == {f \in matches : IsDigit(Split1(PathStem(f.name), "-")[1])}
  IN IF numbered = {} THEN {NotFound}
     ELSE {[path |-> f, status |-> StrToInt(Split1(PathStem(f.name), "-")[1])] :
             f \in numbered}

\* ------------------------------------------------------------ HTML and XML
\* A response body, as the three parsers read it: the <a href> targets
\* (resolved by urljoin), the <link rel="canonical"> href (NoUrl when the tag
\* is absent), and the <url><loc> and <sitemap><loc> entries of a sitemap.
Body(links, canonical, pages, subs) ==
  [links |-> links, canonical |-> canonical, pages |-> pages, subs |-> subs]

EmptyBody == Body({}, NoUrl, <<>>, <<>>)

\* (mutant) no canonical is taken as external
detect_external_never(body, site_url) == FALSE

detect_external_page(body, site_url) ==
  body.canonical # NoUrl /\ ~is_same_domain(body.canonical, site_url)

\* (mutant) the links are not filtered by domain
extract_all_links(body, base_url, site_url) ==
  {Url(l.scheme, l.host, RStrip(l.path, "/"), "") : l \in body.links}

extract_internal_links(body, base_url, site_url) ==
  {Url(l.scheme, l.host, RStrip(l.path, "/"), "") :
     l \in {h \in body.links : h.host = site_url.host /\ h.scheme \in {"http", "https"}}}

parse_sitemap(body) == <<body.pages, body.subs>>

\* ------------------------------------------------------------ fetch client
\* What the origin does with a request: an HTTP response, or a transport
\* failure (httpx.TimeoutException, httpx.RequestError).
Response(status, location, body) ==
  [kind |-> "response", status |-> status, location |-> location, body |-> body]

Failure(kind) == [kind |-> kind, status |-> 0, location |-> NoUrl, body |-> EmptyBody]

FetchResult(status, redirect_url, body) ==
  [status |-> status, redirect_url |-> redirect_url, body |-> body]

fetch_page(answer) ==
  IF answer.kind = "response"
    THEN FetchResult(answer.status,
                     IF 300 <= answer.status /\ answer.status < 400
                       THEN answer.location ELSE NoUrl,
                     answer.body)
    ELSE FetchResult(0, NoUrl, EmptyBody)

\* ------------------------------------------------------------- the origins
\* The sites the crawl is run against: every URL has a small set of answers
\* the origin may give; the answer to a URL is chosen when the URL is first
\* requested and the origin repeats it afterwards (an unchanged origin).
PageUrl(path) == Url("https", SiteHost, path, "")

U_a == PageUrl(<<"/", "a">>)
U_as == PageUrl(<<"/", "a", "/">>)
U_b == PageUrl(<<"/", "b">>)
U_c == PageUrl(<<"/", "c">>)
U_d == PageUrl(<<"/", "d", "/", "e">>)
U_x == Url("https", OtherHost, <<"/", "x">>, "")
\* hrefs that extract_internal_links normalises to U_b and U_c
H_b == PageUrl(<<"/", "b", "/">>)
H_c == Url("https", SiteHost, <<"/", "c">>, "q")
Sitemap2Url == PageUrl(<<"/", "s", "2", ".", "x", "m", "l">>)
\* the href "/b" of a <link rel="canonical">, as urlparse reads it: a path
\* without scheme or host
R_b == Url("", "", <<"/", "b">>, "")

Page(links, canonical) == Body(links, canonical, <<>>, <<>>)
SitemapDoc(pages, subs) == Body({}, NoUrl, pages, subs)

Answers(url) ==
  CASE url = RobotsUrl ->
         {Response(200, NoUrl, EmptyBody), Response(301, RobotsUrl, EmptyBody),
          Failure("error")}
    [] url = SitemapUrl ->
         {Response(200, NoUrl, SitemapDoc(<<U_a>>, <<>>)),
          Response(200, NoUrl, SitemapDoc(<<U_a, U_b>>, <<>>)),
          Response(200, NoUrl, SitemapDoc(<<U_a, U_as, U_b, U_c, U_d>>, <<>>)),
          Response(200, NoUrl, SitemapDoc(<<>>, <<Sitemap2Url, SitemapUrl>>)),
          Response(301, Sitemap2Url, EmptyBody),
          Response(404, NoUrl, EmptyBody)}
    [] url = Sitemap2Url ->
         {Response(200, NoUrl, SitemapDoc(<<U_b, U_c, U_x>>, <<>>)),
          Response(301, Sitemap2Url, SitemapDoc(<<U_b>>, <<>>)),
          Failure("timeout")}
    [] url = U_a ->
         {Response(200, NoUrl, Page({H_b, H_c}, NoUrl)),
          Response(200, NoUrl, Page({U_d}, U_x)),
          Response(200, NoUrl, Page({U_x}, NoUrl)),
          Response(301, U_as, Page({H_c}, NoUrl)),
          Response(301, H_c, EmptyBody),
          Failure("timeout")}
    [] url = U_b ->
         {Response(200, NoUrl, Page({U_a, U_x}, U_b)),
          Response(200, NoUrl, Page({U_c}, R_b)),
          Response(301, U_as, EmptyBody),
          Response(301, U_c, EmptyBody),
          Response(404, NoUrl, Page({U_d}, NoUrl))}
    [] url \in {U_c, H_c} ->
         {Response(200, NoUrl, Page({H_b, U_d}, NoUrl)),
          Response(301, U_a, EmptyBody),
          Response(301, U_d, EmptyBody),
          Response(301, U_x, EmptyBody)}
    [] url = U_d ->
         {Response(200, NoUrl, Page({U_a}, NoUrl)),
          Response(301, U_a, EmptyBody),
          Response(500, NoUrl, EmptyBody)}
    [] OTHER ->
         {Response(200, NoUrl, Page({U_c}, NoUrl)), Response(301, NoUrl, EmptyBody)}

\* ------------------------------------------------------------------- state
VARIABLES
  pc,                \* where main is suspended
  run,               \* the number of the crawl run against the directory
  files,             \* the paths that exist under base_dir
  origin,            \* the answers the origin has given so far, by URL
  semaphore,         \* asyncio.Semaphore: the free slots
  tasks,             \* the fetches of the current await, in creation order
  existing_keys, visited_keys, stats,
  hops,              \* iterations done of the current `for _ in range(5)`
  fetch_url,         \* robots_fetch_url, url_to_fetch
  sitemaps_to_fetch, fetched_sitemaps, current_url, all_page_urls,
  all_bodies, iteration, pages_remaining,
  requested,         \* the URLs handed to download_batch in this run, in order
  last_run,          \* what the previous run left behind
  extracted,         \* the URLs whose bodies the link loop has read, in order
  gathered,          \* the URLs of the batch processed last, in order of return
  probe              \* the last call of the page identity codec made on its own

vars == <<pc, run, files, origin, semaphore, tasks, existing_keys, visited_keys,
          stats, hops, fetch_url, sitemaps_to_fetch, fetched_sitemaps,
          current_url, all_page_urls, all_bodies, iteration, pages_remaining,
          requested, last_run, extracted, gathered, probe>>

sitemapVars == <<sitemaps_to_fetch, fetched_sitemaps, current_url, all_page_urls>>
crawlVars ==
  <<existing_keys, visited_keys, stats, all_bodies, iteration, pages_remaining, requested,
    extracted, gathered>>

\* collections.Counter(): every key reads 0 until it is incremented
NewStats ==
  [errors |-> 0, total |-> 0, internal_redirects |-> 0, external_redirects |-> 0,
   external_canonicals |-> 0, xx |-> [c \in 1..5 |-> 0]]

NoResult == FetchResult(-1, NoUrl, EmptyBody)

\* a fetch_with_semaphore coroutine; seq is the rank of its return among the
\* returns of its batch (0 until it returns)
NewTask(url) == [url |-> url, state |-> "waiting", result |-> NoResult, seq |-> 0]

\* tasks = [fetch_with_semaphore(semaphore, client, url) for url in urls]
NewTasks(urls) == [i \in 1..Len(urls) |-> NewTask(urls[i])]

InFlight == {i \in 1..Len(tasks) : tasks[i].state = "inflight"}
Waiting == {i \in 1..Len(tasks) : tasks[i].state = "waiting"}

NoRun == [pages |-> -1, seeds_claimed |-> FALSE]
NoProbe == [op |-> "none"]

Init ==
  /\ pc = "load"
  /\ run = 1
  /\ files = {}
  /\ origin = <<>>
  /\ semaphore = PARALLELISM
  /\ tasks = <<>>
  /\ existing_keys = {}
  /\ visited_keys = {}
  /\ stats = NewStats
  /\ hops = 0
  /\ fetch_url = NoUrl
  /\ sitemaps_to_fetch = <<>>
  /\ fetched_sitemaps = {}
  /\ current_url = NoUrl
  /\ all_page_urls = <<>>
  /\ all_bodies = <<>>
  /\ iteration = 0
  /\ pages_remaining = 0
  /\ requested = <<>>
  /\ last_run = NoRun
  /\ extracted = <<>>
  /\ gathered = <<>>
  /\ probe = NoProbe

\* --------------------------------------------------------- download_batch
\* (mutant) every key counts as new
IsUnvisitedAlways(key, visited) == TRUE

\* `key not in visited_keys`
IsUnvisited(key, visited) == key \notin visited

\* (mutant) the key is queued without being added to visited_keys
ClaimKeyForgotten(visited, key) == visited

\* visited_keys.add(key)
ClaimKey(visited, key) == visited \cup {key}

\* the 2xx outcomes that are returned for link extraction
IsFollowable(status, body) ==
  200 <= status /\ status < 300 /\ ~detect_external_page(body, WEBSITE_URL)

BatchState(fs, st, visited) ==
  [files |-> fs, stats |-> st, visited_keys |-> visited,
   downloaded |-> <<>>, redirect_targets |-> <<>>]

\* (mutant) a same-domain redirect is counted only when its target is queued
ClassifyCountingQueued(saved, original_url, status, redirect_url, body, key) ==
         IF 300 <= status /\ status < 400
           THEN IF redirect_url # NoUrl /\ is_same_domain(redirect_url, WEBSITE_URL)
                  THEN IF IsUnvisited(key, saved.visited_keys)
                         THEN [saved EXCEPT
                                 !.visited_keys = ClaimKey(@, key),
                                 !.redirect_targets = Append(@, redirect_url),
                                 !.stats.internal_redirects = @ + 1]
                         ELSE saved
                  ELSE IF redirect_url # NoUrl
                         THEN [saved EXCEPT !.stats.external_redirects = @ + 1]
                         ELSE saved
           ELSE IF 200 <= status /\ status < 300
                  THEN IF detect_external_page(body, WEBSITE_URL)
                         THEN [saved EXCEPT !.stats.external_canonicals = @ + 1]
                         ELSE [saved EXCEPT
                                 !.downloaded =
                                    Append(@, [url |-> original_url, status |-> status,
                                               body |-> body])]
                  ELSE saved

\* the classification of a saved outcome: the 3xx, 2xx and 4xx/5xx branches
Classify(saved, original_url, status, redirect_url, body, key) ==
         IF 300 <= status /\ status < 400
           THEN IF redirect_url # NoUrl /\ is_same_domain(redirect_url, WEBSITE_URL)
                  THEN LET queued ==
                             IF IsUnvisited(key, saved.visited_keys)
                               THEN [saved EXCEPT
                                       !.visited_keys = ClaimKey(@, key),
                                       !.redirect_targets = Append(@, redirect_url)]
                               ELSE saved
                       IN [queued EXCEPT !.stats.internal_redirects = @ + 1]
                  ELSE IF redirect_url # NoUrl
                         THEN [saved EXCEPT !.stats.external_redirects = @ + 1]
                         ELSE saved
           ELSE IF 200 <= status /\ status < 300
                  THEN IF detect_external_page(body, WEBSITE_URL)
                         THEN [saved EXCEPT !.stats.external_canonicals = @ + 1]
                         ELSE [saved EXCEPT
                                 !.downloaded =
                                    Append(@, [url |-> original_url, status |-> status,
                                               body |-> body])]
                  ELSE saved

\* one iteration of `for original_url, status, redirect_url, body in results`
ProcessOutcome(b, original_url, status, redirect_url, body) ==
  IF status = 0
    THEN [b EXCEPT !.stats.errors = @ + 1]
    ELSE CHOOSE after \in
           {Classify(saved, original_url, status, redirect_url, body, key) :
              saved \in {[b EXCEPT !.files = save_page(@, original_url, status),
                                   !.stats.xx[status \div 100] = @ + 1,
                                   !.stats.total = @ + 1]},
              key \in {url_to_path_key(redirect_url)}} : TRUE

\* (mutant) the loop is left at the first outcome that is a failure
RECURSIVE ProcessResultsAbort(_, _, _)
ProcessResultsAbort(results, i, b) ==
  IF i > Len(results) THEN b
  ELSE IF results[i].result.status = 0 \/ results[i].result.status >= 400
    THEN ProcessOutcome(b, results[i].url, results[i].result.status,
                        results[i].result.redirect_url, results[i].result.body)
  ELSE ProcessResultsAbort(results, i + 1,
                           ProcessOutcome(b, results[i].url, results[i].result.status,
                                          results[i].result.redirect_url,
                                          results[i].result.body))

\* the loop over the gathered results, in the order of the input list
RECURSIVE ProcessResults(_, _, _)
ProcessResults(results, i, b) ==
  IF i > Len(results) THEN b
  ELSE CHOOSE end \in
         {ProcessResults(results, i + 1, after) :
            after \in {ProcessOutcome(b, results[i].url, results[i].result.status,
                                      results[i].result.redirect_url,
                                      results[i].result.body)}} : TRUE

\* the part of download_batch after `await asyncio.gather(*tasks)`
download_batch(results, fs, st, visited) ==
  ProcessResults(results, 1, BatchState(fs, st, visited))

\* [(url, body) for url, _, body in results]
Bodies(downloaded) ==
  [i \in 1..Len(downloaded) |-> [url |-> downloaded[i].url, body |-> downloaded[i].body]]

\* ------------------------------------------------------------- semaphore
\* (mutant) a slot is taken whether one is free or not
CanAcquireAlways(value) == TRUE

\* `async with semaphore`: a slot is free
CanAcquire(value) == value > 0

\* (mutant) the await returns with the first task that has returned
GatherFirst(ts) == \E i \in 1..Len(ts) : ts[i].state = "done"

\* asyncio.gather returns when every task has returned
GatherDone(ts) == \A i \in 1..Len(ts) : ts[i].state = "done"

\* (mutant) the results come in the order in which the requests returned
gather_as_completed(ts) ==
  [k \in 1..Len(ts) |-> ts[CHOOSE i \in 1..Len(ts) : ts[i].seq = k]]

\* results = await asyncio.gather(*tasks): the results in the order of the
\* awaitables, whatever the order in which they returned
gather(ts) == ts

\* The first waiting task takes a free slot (asyncio wakes waiters in FIFO
\* order) and its request goes out.
Acquire ==
  /\ Waiting # {}
  /\ CanAcquire(semaphore)
  /\ LET i == CHOOSE j \in Waiting : \A k \in Waiting : j <= k
     IN tasks' = [tasks EXCEPT ![i].state = "inflight"]
  /\ semaphore' = semaphore - 1
  /\ UNCHANGED <<pc, run, files, origin, hops, fetch_url, sitemapVars, crawlVars,
                 last_run, probe>>

\* (mutant) the slot is not given back
ReleaseForgotten(value) == value

\* The slot given back by the end of an `async with semaphore` block
Release(value) == value + 1

\* A request in flight completes: the origin answers or the transport fails;
\* fetch_page classifies the answer, the slot is released, the task returns.
Complete(i) ==
  /\ i \in InFlight
  /\ \E answer \in (IF tasks[i].url \in DOMAIN origin
                      THEN {origin[tasks[i].url]} ELSE Answers(tasks[i].url)) :
       /\ origin' = (tasks[i].url :> answer) @@ origin
       /\ tasks' = [tasks EXCEPT
                       ![i].state = "done", ![i].result = fetch_page(answer),
                       ![i].seq = 1 + Cardinality({j \in 1..Len(tasks) :
                                                     tasks[j].state = "done"})]
  /\ semaphore' = Release(semaphore)
  /\ UNCHANGED <<pc, run, files, hops, fetch_url, sitemapVars, crawlVars, last_run, probe>>

\* ---------------------------------------------------------------- main
\* (mutant) the directory scan is not used to seed visited_keys
SeedVisitedEmpty(existing) == {}

\* visited_keys = set(existing_keys)
SeedVisited(existing) == existing

\* pages_remaining = MAX_PAGES + len(existing_keys) - len(visited_keys)
PagesRemaining(existing, visited) ==
  MAX_PAGES + Cardinality(existing) - Cardinality(visited)

\* `300 <= status < 400 and redirect_url` of the two manual redirect loops
IsRedirect(result) ==
  300 <= result.status /\ result.status < 400 /\ result.redirect_url # NoUrl

Requests(urls, via) == [i \in 1..Len(urls) |-> [url |-> urls[i], via |-> via]]

\* Step 1 and the start of step 2: the directory scan seeds visited_keys, then
\* the first robots.txt request is issued.
LoadExisting ==
  /\ pc = "load"
  /\ \E existing \in {load_existing_pages(files)} :
       /\ existing_keys' = existing
       /\ visited_keys' = SeedVisited(existing)
  /\ stats' = NewStats
  /\ semaphore' = PARALLELISM
  /\ fetch_url' = RobotsUrl
  /\ hops' = 0
  /\ tasks' = <<NewTask(RobotsUrl)>>
  /\ pc' = "robots"
  /\ UNCHANGED <<run, files, origin, sitemapVars, all_bodies, iteration,
                 pages_remaining, requested, last_run, extracted, gathered, probe>>

RobotsFilename == <<"r", "o", "b", "o", "t", "s", ".", "t", "x", "t">>

\* A robots.txt request returned: follow the redirect (at most 5 requests),
\* or save the file when the status is 200 and enter fetch_sitemap_urls.
RobotsReturn ==
  /\ pc = "robots"
  /\ tasks # <<>> /\ GatherDone(tasks)
  /\ LET result == tasks[1].result
     IN IF IsRedirect(result) /\ hops + 1 < MAX_HOPS
          THEN /\ fetch_url' = result.redirect_url
               /\ hops' = hops + 1
               /\ tasks' = <<NewTask(result.redirect_url)>>
               /\ UNCHANGED <<pc, files, sitemapVars>>
          ELSE /\ files' = IF result.status = 200
                             THEN save_raw_file(files, RobotsFilename) ELSE files
               /\ all_page_urls' = <<>>
               /\ sitemaps_to_fetch' = <<SitemapUrl>>
               /\ fetched_sitemaps' = {}
               /\ fetch_url' = IF IsRedirect(result) THEN result.redirect_url ELSE fetch_url
               /\ tasks' = <<>>
               /\ pc' = "sitemap_next"
               /\ UNCHANGED <<hops, current_url>>
  /\ UNCHANGED <<run, origin, semaphore, crawlVars, last_run, probe>>

\* the entries popped and skipped because they are in fetched_sitemaps
RECURSIVE SkipFetched(_, _)
SkipFetched(queue, fetched) ==
  IF queue # <<>> /\ Head(queue) \in fetched
    THEN SkipFetched(Tail(queue), fetched) ELSE queue

\* `while sitemaps_to_fetch`: pop the next sitemap that was not fetched yet
\* and request it, or return all_page_urls when the queue is empty.
SitemapNext ==
  /\ pc = "sitemap_next"
  /\ LET queue == SkipFetched(sitemaps_to_fetch, fetched_sitemaps)
     IN IF queue = <<>>
          THEN /\ sitemaps_to_fetch' = <<>>
               /\ pc' = "seeds"
               /\ UNCHANGED <<fetched_sitemaps, current_url, fetch_url, hops, tasks>>
          ELSE /\ current_url' = Head(queue)
               /\ sitemaps_to_fetch' = Tail(queue)
               /\ fetched_sitemaps' = fetched_sitemaps \cup {Head(queue)}
               /\ fetch_url' = Head(queue)
               /\ hops' = 0
               /\ tasks' = <<NewTask(Head(queue))>>
               /\ pc' = "sitemap_fetch"
  /\ UNCHANGED <<run, files, origin, semaphore, all_page_urls, crawlVars, last_run, probe>>

\* current_url.split("/")[-1] or "sitemap.xml"
SitemapFilename(url) ==
  LET parts == Split(url.path, "/")
      last == parts[Len(parts)]
  IN IF url.path = <<>> THEN <<url.host>>
     ELSE IF last # <<>> THEN last
     ELSE <<"s", "i", "t", "e", "m", "a", "p", ".", "x", "m", "l">>

\* `if status == 0 or status >= 400`: the sitemap could not be fetched
SitemapFailed(status) == status = 0 \/ status >= 400

\* A sitemap request returned: follow the redirect (at most 5 requests), or
\* skip the sitemap when it failed, or save and parse it.
SitemapReturn ==
  /\ pc = "sitemap_fetch"
  /\ tasks # <<>> /\ GatherDone(tasks)
  /\ LET result == tasks[1].result
         parsed == parse_sitemap(result.body)
     IN IF IsRedirect(result) /\ hops + 1 < MAX_HOPS
          THEN /\ fetch_url' = result.redirect_url
               /\ hops' = hops + 1
               /\ tasks' = <<NewTask(result.redirect_url)>>
               /\ UNCHANGED <<pc, files, all_page_urls, sitemaps_to_fetch>>
          ELSE /\ IF SitemapFailed(result.status)
                    THEN UNCHANGED <<files, all_page_urls, sitemaps_to_fetch>>
                    ELSE /\ files' = save_raw_file(files, SitemapFilename(current_url))
                         /\ all_page_urls' = all_page_urls \o parsed[1]
                         /\ sitemaps_to_fetch' = sitemaps_to_fetch \o parsed[2]
               /\ fetch_url' = IF IsRedirect(result) THEN result.redirect_url ELSE fetch_url
               /\ tasks' = <<>>
               /\ pc' = "sitemap_next"
               /\ UNCHANGED hops
  /\ UNCHANGED <<run, origin, semaphore, fetched_sitemaps, current_url, crawlVars,
                 last_run, probe>>

\* `len(visited_keys) < MAX_PAGES + len(existing_keys)`
WithinBudget(visited, existing) ==
  Cardinality(visited) < MAX_PAGES + Cardinality(existing)

\* step 4: `for url in sitemap_page_urls`, claiming the keys of the seeds
RECURSIVE SeedLoop(_, _, _, _)
SeedLoop(urls, i, existing, acc) ==
  IF i > Len(urls) THEN acc
  ELSE CHOOSE end \in
         {SeedLoop(urls, i + 1, existing, next) :
            next \in {IF IsUnvisited(key, acc.visited_keys)
                         /\ WithinBudget(acc.visited_keys, existing)
                        THEN [visited_keys |-> ClaimKey(acc.visited_keys, key),
                              urls_to_fetch |-> Append(acc.urls_to_fetch, urls[i])]
                        ELSE acc : key \in {url_to_path_key(urls[i])}}} : TRUE

\* fetch_sitemap_urls returned: filter the seeds and download them, or go to
\* the link discovery loop when there is none.
SeedFilter ==
  /\ pc = "seeds"
  /\ \E seeds \in {SeedLoop(all_page_urls, 1, existing_keys,
                              [visited_keys |-> visited_keys, urls_to_fetch |-> <<>>])} :
        /\ visited_keys' = seeds.visited_keys
        /\ all_bodies' = <<>>
        /\ IF seeds.urls_to_fetch # <<>>
             THEN /\ tasks' = NewTasks(seeds.urls_to_fetch)
                  /\ requested' = requested \o Requests(seeds.urls_to_fetch, "seed")
                  /\ pc' = "seed_batch"
                  /\ UNCHANGED <<iteration, pages_remaining>>
             ELSE /\ iteration' = 0
                  /\ pages_remaining' = PagesRemaining(existing_keys, seeds.visited_keys)
                  /\ pc' = "links"
                  /\ UNCHANGED <<tasks, requested>>
  /\ UNCHANGED <<run, files, origin, semaphore, existing_keys, stats, hops,
                 fetch_url, sitemapVars, last_run, extracted, gathered, probe>>

\* the URLs of the requests that have returned, in the order of their return
ReturnOrder(ts) ==
  [k \in 1..Cardinality({i \in 1..Len(ts) : ts[i].seq > 0}) |->
     ts[CHOOSE i \in 1..Len(ts) : ts[i].seq = k].url]

\* The merge of a batch into the shared state, and `while redirect_targets`:
\* the next batch is the redirect targets, or the loop is left for `after`.
MergeBatch(b, bodies, redirectPc, after) ==
  /\ files' = b.files
  /\ stats' = b.stats
  /\ visited_keys' = b.visited_keys
  /\ all_bodies' = bodies
  /\ gathered' = ReturnOrder(tasks)
  /\ IF b.redirect_targets # <<>>
       THEN /\ tasks' = NewTasks(b.redirect_targets)
            /\ requested' = requested \o Requests(b.redirect_targets, "redirect")
            /\ pc' = redirectPc
            /\ UNCHANGED <<iteration, pages_remaining>>
       ELSE /\ tasks' = <<>>
            /\ pages_remaining' = PagesRemaining(existing_keys, b.visited_keys)
            /\ iteration' = IF after = "first" THEN 0 ELSE iteration
            /\ pc' = "links"
            /\ UNCHANGED requested
  /\ UNCHANGED <<run, origin, semaphore, existing_keys, hops, fetch_url,
                 sitemapVars, last_run, extracted, probe>>

\* (mutant) the bodies of a redirect round replace the ones kept so far
ExtendReplacing(bodies, more) == more

\* all_bodies.extend(...)
Extend(bodies, more) == bodies \o more

\* the download_batch of the sitemap pages returned
SeedBatchReturn ==
  /\ pc = "seed_batch"
  /\ GatherDone(tasks)
  /\ \E b \in {download_batch(gather(tasks), files, stats, visited_keys)} :
       MergeBatch(b, Bodies(b.downloaded), "seed_redirects", "first")

\* a download_batch of redirect targets of the sitemap pages returned
SeedRedirectReturn ==
  /\ pc = "seed_redirects"
  /\ GatherDone(tasks)
  /\ \E b \in {download_batch(gather(tasks), files, stats, visited_keys)} :
       MergeBatch(b, Extend(all_bodies, Bodies(b.downloaded)), "seed_redirects", "first")

\* the download_batch of a wave of new links returned
WaveBatchReturn ==
  /\ pc = "wave_batch"
  /\ GatherDone(tasks)
  /\ \E b \in {download_batch(gather(tasks), files, stats, visited_keys)} :
       MergeBatch(b, Bodies(b.downloaded), "wave_redirects", "next")

\* a download_batch of redirect targets of a wave returned
WaveRedirectReturn ==
  /\ pc = "wave_redirects"
  /\ GatherDone(tasks)
  /\ \E b \in {download_batch(gather(tasks), files, stats, visited_keys)} :
       MergeBatch(b, Extend(all_bodies, Bodies(b.downloaded)), "wave_redirects", "next")

\* the orders in which a set can be iterated
Orderings(S) ==
  {f \in [1..Cardinality(S) -> S] : \A i, j \in 1..Cardinality(S) : f[i] = f[j] => i = j}

\* The order in which the documents of the origins hold their <a href>
\* elements, which is the order in which extract_internal_links comes upon
\* the links before it puts them in its set.
AnchorOrder == <<U_a, U_b, U_c, U_d>>

\* the links of a set in the order of the document they were found in
InDocumentOrder(S) ==
  CHOOSE f \in Orderings(S) :
    \A i, j \in 1..Cardinality(S) :
      i < j => \E m, n \in 1..Len(AnchorOrder) :
                 m < n /\ AnchorOrder[m] = f[i] /\ AnchorOrder[n] = f[j]

\* one iteration order for the link set of every body
RECURSIVE LinkOrders(_)
LinkOrders(bodies) ==
  IF bodies = <<>> THEN {<<>>}
  ELSE {<<o>> \o rest :
          o \in Orderings(extract_internal_links(Head(bodies).body, Head(bodies).url,
                                                 WEBSITE_URL)),
          rest \in LinkOrders(Tail(bodies))}

\* `for link in links`: claim the keys that are new
RECURSIVE LinkLoop(_, _, _)
LinkLoop(links, i, acc) ==
  IF i > Len(links) THEN acc
  ELSE CHOOSE end \in
         {LinkLoop(links, i + 1, next) :
            next \in {IF IsUnvisited(key, acc.visited_keys)
                        THEN [visited_keys |-> ClaimKey(acc.visited_keys, key),
                              new_urls |-> Append(acc.new_urls, links[i])]
                        ELSE acc : key \in {url_to_path_key(links[i])}}} : TRUE

\* `for page_url, body in all_bodies`
RECURSIVE PageLoop(_, _, _)
PageLoop(orders, i, acc) ==
  IF i > Len(orders) THEN acc
  ELSE CHOOSE end \in
         {PageLoop(orders, i + 1, next) : next \in {LinkLoop(orders[i], 1, acc)}} : TRUE

\* (mutant) the new links are not cut to the budget
CapToBudgetNever(new_urls, remaining) == new_urls

\* new_urls[:pages_remaining]
CapToBudget(new_urls, remaining) ==
  IF Len(new_urls) > remaining THEN SubSeq(new_urls, 1, remaining) ELSE new_urls

\* One iteration of `while pages_remaining > 0`, up to its download_batch;
\* the loop is left when the budget is used up or no new link is found.
ExtractLinks ==
  /\ pc = "links"
  /\ IF pages_remaining > 0
       THEN \E orders \in LinkOrders(all_bodies) :
            \E found \in {PageLoop(orders, 1,
                                    [visited_keys |-> visited_keys, new_urls |-> <<>>])} :
            \E new_urls \in {CapToBudget(found.new_urls, pages_remaining)} :
                 /\ iteration' = iteration + 1
                 /\ visited_keys' = found.visited_keys
                 /\ extracted' = extracted \o [i \in 1..Len(all_bodies) |-> all_bodies[i].url]
                 /\ IF new_urls = <<>>
                      THEN /\ pc' = "done"
                           /\ UNCHANGED <<tasks, requested>>
                      ELSE /\ tasks' = NewTasks(new_urls)
                           /\ requested' = requested \o Requests(new_urls, "link")
                           /\ pc' = "wave_batch"
       ELSE /\ pc' = "done"
            /\ UNCHANGED <<tasks, requested, iteration, visited_keys, extracted>>
  /\ UNCHANGED <<run, files, origin, semaphore, existing_keys, stats, hops,
                 fetch_url, sitemapVars, all_bodies, pages_remaining, last_run, gathered,
                 probe>>

\* What main hands to its caller: it has no return statement, raises nothing
\* of its own and prints the banner of step 6 on every path that ends.
Outcome ==
  IF pc = "done"
    THEN [returns |-> "None", banner |-> "SCRAPING SESSION COMPLETE"]
    ELSE [returns |-> "", banner |-> ""]

\* every sitemap page URL has its path-key in visited_keys
SeedsClaimed == \A i \in 1..Len(all_page_urls) : url_to_path_key(all_page_urls[i]) \in visited_keys

\* The crawl is run a second time, against the directory the first run left.
Restart ==
  /\ pc = "done"
  /\ run = 1
  /\ run' = run + 1
  /\ last_run' = [pages |-> Cardinality(PageFiles(files)), seeds_claimed |-> SeedsClaimed]
  /\ pc' = "load"
  /\ semaphore' = PARALLELISM
  /\ tasks' = <<>>
  /\ existing_keys' = {}
  /\ visited_keys' = {}
  /\ stats' = NewStats
  /\ hops' = 0
  /\ fetch_url' = NoUrl
  /\ sitemaps_to_fetch' = <<>>
  /\ fetched_sitemaps' = {}
  /\ current_url' = NoUrl
  /\ all_page_urls' = <<>>
  /\ all_bodies' = <<>>
  /\ iteration' = 0
  /\ pages_remaining' = 0
  /\ requested' = <<>>
  /\ extracted' = <<>>
  /\ gathered' = <<>>
  /\ UNCHANGED <<files, origin, probe>>

Next ==
  \/ LoadExisting
  \/ Acquire
  \/ \E i \in 1..Len(tasks) : Complete(i)
  \/ RobotsReturn
  \/ SitemapNext
  \/ SitemapReturn
  \/ SeedFilter
  \/ SeedBatchReturn
  \/ SeedRedirectReturn
  \/ WaveBatchReturn
  \/ WaveRedirectReturn
  \/ ExtractLinks
  \/ Restart

Spec == Init /\ [][Next]_vars

\* every request that was issued completes or times out, and main runs on
FairSpec == Spec /\ WF_vars(Next)

\* ------------------------------------------------- the codec on its own
\* The page identity codec called outside a crawl, as 2-sitemap.py and
\* utils_links.py call it: on a directory that earlier saves have filled.
P_root == PageUrl(<<>>)
P_xa == PageUrl(<<"/", "x", "-", "a">>)
P_da == PageUrl(<<"/", "d", "/", "a">>)
P_ab == PageUrl(<<"/", "a", "b">>)
P_br == PageUrl(<<"/", "a", "[", "b", "]">>)
P_slash == PageUrl(<<"/">>)
P_das == PageUrl(<<"/", "d", "/", "a", "/">>)
P_dd == PageUrl(<<"/", "a", "/", "/", "b">>)
P_dot == PageUrl(<<"/", ".", "/", "a">>)
ProbeUrls == {P_root, P_slash, U_a, U_as, P_xa, P_da, P_das, P_ab, P_br, P_dd, P_dot}
ProbeStatuses == {200, 404}

\* the parts URL texts are built from
UrlParts ==
  [scheme : {<<"h", "t", "t", "p">>, <<"h", "t", "t", "p", "s">>},
   host : {<<"x">>, <<"y", ".", "z">>},
   path : {<<>>, <<"/">>, <<"/", "a">>, <<"/", "a", "/">>, <<"/", "a", "/", "b">>,
           <<"/", "a", "/", "b", "/">>},
   query : {<<>>, <<"b", "/">>},
   fragment : {<<>>, <<"/", "c", "/">>}]

\* the text of a URL with the given parts
UrlText(c) ==
  c.scheme \o <<":", "/", "/">> \o c.host \o c.path
    \o (IF c.query = <<>> THEN <<>> ELSE <<"?">> \o c.query)
    \o (IF c.fragment = <<>> THEN <<>> ELSE <<"#">> \o c.fragment)

CodecInit ==
  /\ Init
  /\ pc = "load"

\* save_page(base_dir, url, status, body), then find_page_file(base_dir, url)
SaveThenFind ==
  /\ \E url \in ProbeUrls, status \in ProbeStatuses :
     \E saved \in {save_page(files, url, status)} :
       /\ Cardinality(saved) <= MaxFiles
       /\ files' = saved
       /\ \E found \in find_page_file(saved, url) :
            probe' = [op |-> "find", url |-> url, status |-> status,
                      written |-> get_page_path(url, status), found |-> found]
  /\ UNCHANGED <<pc, run, origin, semaphore, tasks, hops, fetch_url, sitemapVars,
                 crawlVars, last_run>>

CodecSpec == CodecInit /\ [][SaveThenFind]_vars

\* two URLs, given as text, whose path-keys are asked for
KeyInit ==
  /\ pc = "load"
  /\ run = 1
  /\ files = {}
  /\ origin = <<>>
  /\ semaphore = PARALLELISM
  /\ tasks = <<>>
  /\ existing_keys = {}
  /\ visited_keys = {}
  /\ stats = NewStats
  /\ hops = 0
  /\ fetch_url = NoUrl
  /\ sitemaps_to_fetch = <<>>
  /\ fetched_sitemaps = {}
  /\ current_url = NoUrl
  /\ all_page_urls = <<>>
  /\ all_bodies = <<>>
  /\ iteration = 0
  /\ pages_remaining = 0
  /\ requested = <<>>
  /\ last_run = NoRun
  /\ extracted = <<>>
  /\ gathered = <<>>
  /\ probe \in {[op |-> "urls", parts |-> <<c1, c2>>] : c1, c2 \in UrlParts}

\* url_to_path_key(url) of the two URLs
PathKeys ==
  /\ probe.op = "urls"
  /\ probe' = [op |-> "keys", parts |-> probe.parts,
                keys |-> <<url_to_path_key(urlparse(UrlText(probe.parts[1]))),
                           url_to_path_key(urlparse(UrlText(probe.parts[2])))>>]
  /\ UNCHANGED <<pc, run, files, origin, semaphore, tasks, hops, fetch_url,
                 sitemapVars, crawlVars, last_run>>

KeySpec == KeyInit /\ [][PathKeys]_vars

\* ================================================================ properties
RequestedUrls == {requested[i].url : i \in 1..Len(requested)}
RequestedKeys == {url_to_path_key(u) : u \in RequestedUrls}
BatchPcs == {"seed_batch", "seed_redirects", "wave_batch", "wave_redirects"}
\* the result fetch_page gave for a URL that was requested and has completed
ResultOf(u) == fetch_page(origin[u])
Answered(u) == u \in DOMAIN origin /\ \A i \in 1..Len(tasks) : tasks[i].url = u => tasks[i].state = "done"

\* C1: with zero prior pages a finished crawl run has requested at most
\* MAX_PAGES distinct path-keys through download_batch, whatever the site
\* answers, same-domain redirects included.
C1_BudgetEnforced ==
  (pc = "done" /\ existing_keys = {}) => Cardinality(RequestedKeys) <= MAX_PAGES

\* C2: no URL whose path-key load_existing_pages derived from the directory
\* at crawl start is requested by download_batch in the run, and the scan has
\* seeded visited_keys before any request exists.
C2_PriorPagesNotRequested ==
  /\ \A u \in RequestedUrls : url_to_path_key(u) \notin existing_keys
  /\ (pc = "load" => tasks = <<>> /\ requested = <<>>)
  /\ (pc # "load" => existing_keys \subseteq visited_keys)

\* a prior page came up again in the second run, as a seed and as the target
\* of an internal redirect, and the run finished
C2_Witness ==
  /\ pc = "done" /\ run = 2
  /\ \E i \in 1..Len(all_page_urls) : url_to_path_key(all_page_urls[i]) \in existing_keys
  /\ \E u \in RequestedUrls :
       /\ IsRedirect(ResultOf(u))
       /\ is_same_domain(ResultOf(u).redirect_url, WEBSITE_URL)
       /\ url_to_path_key(ResultOf(u).redirect_url) \in existing_keys


\* C3: every URL handed to download_batch has a path-key that was unvisited
\* before the step that queued it and is in visited_keys after it, and no
\* other URL requested in the run has that path-key: nothing is requested
\* twice or retried.
C3_RequestedOnceAndClaimed ==
  [][Len(requested') > Len(requested) =>
       \A i \in (Len(requested) + 1)..Len(requested') :
         LET key == url_to_path_key(requested'[i].url)
         IN /\ key \notin visited_keys
            /\ key \in visited_keys'
            /\ \A j \in 1..Len(requested') :
                 j # i => url_to_path_key(requested'[j].url) # key]_vars

\* a finished run that requested seeds and redirect targets, one of whose
\* requests failed in transport
C3_Witness ==
  /\ pc = "done"
  /\ \E i, j \in 1..Len(requested) :
       requested[i].via = "seed" /\ requested[j].via = "redirect"
  /\ \E u \in RequestedUrls : ResultOf(u).status = 0
  /\ \E u \in RequestedUrls : ResultOf(u).status >= 400

C5_ReachesDone == (pc = "load") ~> (pc = "done")

\* a finished run in which two requested URLs redirect to each other's
\* path-key
C5_Witness ==
  /\ pc = "done"
  /\ \E u, v \in RequestedUrls :
       /\ url_to_path_key(u) # url_to_path_key(v)
       /\ IsRedirect(ResultOf(u)) /\ IsRedirect(ResultOf(v))
       /\ url_to_path_key(ResultOf(u).redirect_url) = url_to_path_key(v)
       /\ url_to_path_key(ResultOf(v).redirect_url) = url_to_path_key(u)

\* C6: visited_keys never holds more than MAX_PAGES + len(existing_keys) keys.
C6_VisitedBounded ==
  Cardinality(visited_keys) <= MAX_PAGES + Cardinality(existing_keys)

\* C7: at every moment at most PARALLELISM requests are in flight, whatever
\* is being fetched (robots.txt, a sitemap, the pages of a batch), the free
\* slots and the requests in flight add up to PARALLELISM, and a request
\* starts only in a step that found fewer than PARALLELISM in flight.
C7_InFlightBounded ==
  /\ [](/\ Cardinality(InFlight) <= PARALLELISM
        /\ semaphore = PARALLELISM - Cardinality(InFlight))
  /\ [][\A i \in 1..Len(tasks) :
          (i <= Len(tasks') /\ tasks[i].state = "waiting" /\ tasks'[i].state = "inflight")
            => Cardinality(InFlight) < PARALLELISM]_vars

\* a batch of more than PARALLELISM fetches: the limit is reached again
\* after a request returned and the fetch that was suspended took its slot
C7_Witness ==
  /\ pc \in BatchPcs
  /\ Len(tasks) > PARALLELISM
  /\ Cardinality(InFlight) = PARALLELISM
  /\ semaphore = 0
  /\ \E i \in 1..Len(tasks) : tasks[i].state = "done"

\* C8: while a request of a download_batch call has not returned, the step
\* leaves visited_keys, stats, the files, the result lists and main's
\* position alone, the batch keeps its URLs (no other batch starts), and a
\* request that has returned keeps its outcome; every request that returned
\* has an outcome of its own.
C8_MergedAfterGather ==
  /\ [][(pc \in BatchPcs /\ \E i \in 1..Len(tasks) : tasks[i].state # "done")
          => /\ UNCHANGED <<visited_keys, stats, files, all_bodies, requested, pc>>
             /\ Len(tasks') = Len(tasks)
             /\ \A i \in 1..Len(tasks) :
                  /\ tasks'[i].url = tasks[i].url
                  /\ tasks[i].state = "done" => tasks'[i] = tasks[i]]_vars
  /\ [](pc \in BatchPcs =>
          \A i \in 1..Len(tasks) :
            tasks[i].state = "done" <=> tasks[i].result # NoResult)

\* a batch in which one request has failed in transport, one has been
\* answered and one is still in flight
C8_Witness ==
  /\ pc \in BatchPcs
  /\ \E i, j, k \in 1..Len(tasks) :
       /\ tasks[i].state = "done" /\ tasks[i].result.status = 0
       /\ tasks[j].state = "done" /\ tasks[j].result.status >= 200
       /\ tasks[k].state = "inflight"

\* the path-keys of the same-host redirect targets among the outcomes of a
\* batch that are not in a given visited set
NewTargetKeys(ts, visited) ==
  {url_to_path_key(ts[i].result.redirect_url) :
     i \in {j \in 1..Len(ts) :
              /\ 300 <= ts[j].result.status /\ ts[j].result.status < 400
              /\ ts[j].result.redirect_url # NoUrl
              /\ ts[j].result.redirect_url.host = SiteHost}} \ visited

\* C9: the step in which a download_batch returns queues, for every path-key
\* of a same-host redirect target that was unvisited, exactly one URL of that
\* key, and queues nothing else; over the run no two queued redirect targets
\* share a path-key.
C9_RedirectTargetQueuedOnce ==
  [][(pc \in BatchPcs /\ \A i \in 1..Len(tasks) : tasks[i].state = "done")
       => LET new == SubSeq(requested', Len(requested) + 1, Len(requested'))
              targets == NewTargetKeys(tasks, visited_keys)
          IN /\ \A k \in targets :
                  Cardinality({i \in 1..Len(new) : url_to_path_key(new[i].url) = k}) = 1
             /\ \A i \in 1..Len(new) :
                  new[i].via = "redirect" /\ url_to_path_key(new[i].url) \in targets
             /\ \A i, j \in 1..Len(requested') :
                  (i # j /\ requested'[i].via = "redirect")
                    => url_to_path_key(requested'[i].url) # url_to_path_key(requested'[j].url)
     ]_vars

\* two seeds of one batch redirected to different URLs of one unvisited
\* path-key, and one URL of that key was queued
C9_Witness ==
  /\ pc = "seed_redirects"
  /\ \E u, v \in RequestedUrls :
       /\ u # v /\ Answered(u) /\ Answered(v)
       /\ IsRedirect(ResultOf(u)) /\ IsRedirect(ResultOf(v))
       /\ ResultOf(u).redirect_url # ResultOf(v).redirect_url
       /\ ResultOf(u).redirect_url.host = SiteHost
       /\ ResultOf(v).redirect_url.host = SiteHost
       /\ url_to_path_key(ResultOf(u).redirect_url) = url_to_path_key(ResultOf(v).redirect_url)
       /\ Cardinality({i \in 1..Len(requested) :
                         /\ requested[i].via = "redirect"
                         /\ url_to_path_key(requested[i].url)
                              = url_to_path_key(ResultOf(u).redirect_url)}) = 1

\* the canonical tag of a body names another host than the crawl root
CanonicalElsewhere(body) == body.canonical # NoUrl /\ body.canonical.host # SiteHost
\* the requested URLs whose outcome download_batch has processed
Processed == {u \in RequestedUrls : Answered(u)}

\* C10: a 2xx page whose canonical names another host is on disk under its
\* status once its batch was processed and is not among the bodies kept for
\* link extraction; those bodies are all 2xx outcomes of requested URLs, and
\* every URL requested as a link was extracted from such a body.
C10_ExternalNotFollowed ==
  /\ \A i \in 1..Len(all_bodies) :
       LET u == all_bodies[i].url
       IN /\ u \in Processed
          /\ all_bodies[i].body = ResultOf(u).body
          /\ 200 <= ResultOf(u).status /\ ResultOf(u).status < 300
          /\ ~CanonicalElsewhere(all_bodies[i].body)
  /\ \A u \in Processed :
       (200 <= ResultOf(u).status /\ ResultOf(u).status < 300
          /\ CanonicalElsewhere(ResultOf(u).body) /\ pc \notin BatchPcs)
         => get_page_path(u, ResultOf(u).status) \in files
  /\ \A i \in 1..Len(requested) :
       requested[i].via = "link" =>
         \E v \in Processed :
           /\ 200 <= ResultOf(v).status /\ ResultOf(v).status < 300
           /\ ~CanonicalElsewhere(ResultOf(v).body)
           /\ \E l \in ResultOf(v).body.links :
                l.host = SiteHost /\ requested[i].url = Url(l.scheme, l.host, RStrip(l.path, "/"), "")

\* a finished run that archived a 2xx page with a canonical on another host
\* and a 4xx page, each linking to a same-host page that was never claimed
C10_Witness ==
  /\ pc = "done"
  /\ \E u, v \in RequestedUrls :
       /\ ResultOf(u).status = 200 /\ CanonicalElsewhere(ResultOf(u).body)
       /\ get_page_path(u, 200) \in files
       /\ \E l \in ResultOf(u).body.links :
            l.host = SiteHost /\ url_to_path_key(l) \notin visited_keys
       /\ ResultOf(v).status >= 400
       /\ \E l \in ResultOf(v).body.links :
            l.host = SiteHost /\ url_to_path_key(l) \notin visited_keys

\* the origin served one page and nothing it links to is on the site's host
IsolatedPage(u) ==
  /\ u \in DOMAIN origin
  /\ origin[u].kind = "response" /\ origin[u].status = 200
  /\ origin[u].body.canonical = NoUrl
  /\ \A l \in origin[u].body.links : l.host # SiteHost

\* C11: on an empty directory, with a budget larger than the site, a site
\* whose sitemap lists one page that has no same-domain link ends with the
\* first link-extraction iteration finding nothing: one iteration, one URL
\* requested, stats total 1, one page file on disk.
C11_IsolatedPageOneWave ==
  (run = 1 /\ pc = "done" /\ Len(all_page_urls) = 1 /\ IsolatedPage(all_page_urls[1]))
    => /\ iteration = 1
       /\ Len(requested) = 1 /\ requested[1].url = all_page_urls[1]
       /\ stats.total = 1 /\ stats.xx[2] = 1 /\ stats.errors = 0
       /\ PageFiles(files) = {get_page_path(all_page_urls[1], 200)}

\* the crawl of an isolated page that links to another host has finished
C11_Witness ==
  /\ run = 1 /\ pc = "done" /\ MAX_PAGES > 1
  /\ Len(all_page_urls) = 1 /\ IsolatedPage(all_page_urls[1])
  /\ origin[all_page_urls[1]].body.links # {}
  /\ PageFiles(files) # {}

C13_PathKeyDeterminism ==
  probe.op = "keys" =>
    LET p1 == probe.parts[1].path
        p2 == probe.parts[2].path
    IN /\ (p2 = p1 \o <<"/">> \/ p1 = p2) => probe.keys[1] = probe.keys[2]
       /\ p1 \in {<<>>, <<"/">>} => probe.keys[1] = IndexSlug
       /\ (p1 # <<>> /\ p1[Len(p1)] # "/") => probe.keys[1] = Tail(p1)

\* the keys of https://x/a/b?b/#/c/ and http://y.z/a/b/ were computed
C13_Witness ==
  /\ probe.op = "keys"
  /\ probe.parts[1].path = <<"/", "a", "/", "b">>
  /\ probe.parts[2].path = <<"/", "a", "/", "b", "/">>
  /\ probe.parts[1].scheme # probe.parts[2].scheme
  /\ probe.parts[1].host # probe.parts[2].host
  /\ probe.parts[1].query # <<>> /\ probe.parts[2].query = <<>>
  /\ probe.parts[1].fragment # <<>> /\ probe.parts[2].fragment = <<>>
  /\ probe.keys = <<<<"a", "/", "b">>, <<"a", "/", "b">>>>

\* the tasks of a batch whose outcome has status 0, and the others
ErrorTasks(ts) == {i \in 1..Len(ts) : ts[i].result.status = 0}
AnsweredTasks(ts) == {i \in 1..Len(ts) : ts[i].result.status # 0}

\* C14: the step in which download_batch processes its outcomes writes, for
\* every outcome of non-zero status, the page file of the requested URL
\* under that status and no other file, counts each such outcome once in
\* the total and in its status class, and for every outcome of status 0
\* only adds one to the error counter.
C14_PersistedUnderTrueStatus ==
  [][(pc \in BatchPcs /\ \A i \in 1..Len(tasks) : tasks[i].state = "done")
       => /\ files' = files \cup {get_page_path(tasks[i].url, tasks[i].result.status) :
                                    i \in AnsweredTasks(tasks)}
          /\ stats'.errors = stats.errors + Cardinality(ErrorTasks(tasks))
          /\ stats'.total = stats.total + Cardinality(AnsweredTasks(tasks))
          /\ \A c \in 1..5 :
               stats'.xx[c] = stats.xx[c]
                 + Cardinality({i \in AnsweredTasks(tasks) :
                                  tasks[i].result.status \div 100 = c})
          /\ \A i \in ErrorTasks(tasks) :
               /\ \A j \in 1..Len(all_bodies') : all_bodies'[j].url # tasks[i].url
               /\ \A f \in files' \ files :
                    \E j \in AnsweredTasks(tasks) :
                      f = get_page_path(tasks[j].url, tasks[j].result.status)
     ]_vars

\* a finished run with a 2xx, a 3xx, a 4xx/5xx and a transport-error outcome,
\* the first three on disk under their status
C14_Witness ==
  /\ pc = "done"
  /\ \E u, v, w, z \in RequestedUrls :
       /\ ResultOf(u).status = 200 /\ get_page_path(u, 200) \in files
       /\ ResultOf(v).status = 301 /\ get_page_path(v, 301) \in files
       /\ ResultOf(w).status >= 400 /\ get_page_path(w, ResultOf(w).status) \in files
       /\ ResultOf(z).status = 0
       /\ \A st \in {0, 200, 301, 404, 500} : get_page_path(z, st) \notin files
  /\ stats.errors = 1

\* C15: a sitemap whose fifth response is still a redirect is skipped like an
\* unfetchable one: the step writes no file, takes no page URL and no
\* sub-sitemap from the response, and goes on with the work-queue.
C15_HopBoundIsFailure ==
  [][(/\ pc = "sitemap_fetch"
      /\ tasks # <<>> /\ tasks[1].state = "done"
      /\ 300 <= tasks[1].result.status /\ tasks[1].result.status < 400
      /\ tasks[1].result.redirect_url # NoUrl
      /\ hops + 1 >= MAX_HOPS)
       => /\ UNCHANGED <<files, all_page_urls, sitemaps_to_fetch>>
          /\ pc' = "sitemap_next"]_vars

\* C16: a sitemap URL is taken from the work-queue only if it was not taken
\* before, at most MAX_HOPS requests are made for it, the resolver comes back
\* to main with an empty work-queue, and what it returns grows, with every
\* sitemap it leaves, by the page URLs of that sitemap if its fetch ended in
\* a 2xx response and by nothing otherwise.
C16_SitemapsOnceAndFlattened ==
  /\ [][(pc = "sitemap_next" /\ pc' = "sitemap_fetch")
          => /\ current_url' \notin fetched_sitemaps
             /\ current_url' \in fetched_sitemaps'
             /\ hops' = 0]_vars
  /\ [](pc = "sitemap_fetch" => hops < MAX_HOPS /\ Len(tasks) = 1)
  /\ [](pc = "seeds" => sitemaps_to_fetch = <<>>)
  /\ [][(pc = "sitemap_fetch" /\ pc' = "sitemap_next")
          => all_page_urls' =
               all_page_urls \o
                 (IF 200 <= tasks[1].result.status /\ tasks[1].result.status < 300
                    THEN tasks[1].result.body.pages ELSE <<>>)]_vars
  /\ (pc = "sitemap_next") ~> (pc = "seeds")

\* the outcome of a run that downloaded its seeds and finished
NormalCompletion == [returns |-> "None", banner |-> "SCRAPING SESSION COMPLETE"]

\* C17: a run that obtained no seed URL at all ends in an outcome that
\* differs from the one of a normal completion.
C17_EmptyResultExplicit ==
  (pc = "done" /\ all_page_urls = <<>>) => Outcome # NormalCompletion

\* the tasks of a batch whose outcome is a failure of that URL: a timeout or
\* connection error, or a 4xx or 5xx answer
FailedTasks(ts) ==
  {i \in 1..Len(ts) : ts[i].result.status = 0 \/ ts[i].result.status >= 400}

\* C18: when a batch holds a failed URL, the step that processes the batch
\* still persists every outcome of non-zero status, keeps every 2xx body
\* whose canonical is not on another host, queues the unvisited same-host
\* redirect targets, and main goes on; from a batch with a failed URL the
\* run reaches DONE.
C18_FailuresAreLocal ==
  /\ [][(/\ pc \in BatchPcs
         /\ \A i \in 1..Len(tasks) : tasks[i].state = "done"
         /\ FailedTasks(tasks) # {})
          => /\ \A i \in AnsweredTasks(tasks) :
                  get_page_path(tasks[i].url, tasks[i].result.status) \in files'
             /\ \A i \in 1..Len(tasks) :
                  (/\ 200 <= tasks[i].result.status /\ tasks[i].result.status < 300
                   /\ ~CanonicalElsewhere(tasks[i].result.body))
                    => \E k \in 1..Len(all_bodies') :
                         all_bodies'[k] = [url |-> tasks[i].url,
                                           body |-> tasks[i].result.body]
             /\ \A k \in NewTargetKeys(tasks, visited_keys) :
                  \E j \in (Len(requested) + 1)..Len(requested') :
                    url_to_path_key(requested'[j].url) = k
             /\ stats'.errors + stats'.total = stats.errors + stats.total + Len(tasks)
             /\ pc' \in {"links", "seed_redirects", "wave_redirects"}]_vars
  /\ (pc \in BatchPcs /\ FailedTasks(tasks) # {}) ~> (pc = "done")

\* a finished run whose seed batch held a failed URL after a followable page:
\* the page's links were requested in a later wave
C18_Witness ==
  /\ pc = "done"
  /\ \E i, j, k \in 1..Len(requested) :
       /\ requested[i].via = "seed" /\ requested[j].via = "seed" /\ requested[k].via = "link"
       /\ ResultOf(requested[i].url).status = 0 \/ ResultOf(requested[i].url).status >= 400
       /\ ResultOf(requested[j].url).status = 200
       /\ requested[k].url \in
            extract_internal_links(ResultOf(requested[j].url).body, requested[j].url,
                                   WEBSITE_URL)

\* C19: a link-extraction step requests the newly seen links taken page by
\* page in the order of all_bodies and, within a page, in the order in which
\* they were extracted from its document: all of them when they fit the
\* remaining budget, the first pages_remaining of them otherwise.
C19_TruncatedInExtractionOrder ==
  [][(pc = "links" /\ pages_remaining > 0)
       => LET inOrder ==
                [i \in 1..Len(all_bodies) |->
                   InDocumentOrder(extract_internal_links(all_bodies[i].body,
                                                          all_bodies[i].url, WEBSITE_URL))]
              seen == PageLoop(inOrder, 1,
                               [visited_keys |-> visited_keys, new_urls |-> <<>>]).new_urls
              first == IF Len(seen) > pages_remaining
                         THEN SubSeq(seen, 1, pages_remaining) ELSE seen
          IN {requested'[i].url : i \in (Len(requested) + 1)..Len(requested')}
               = {first[i] : i \in 1..Len(first)}]_vars

\* the requested URLs whose processed outcome is a 2xx body kept for link
\* extraction
Followable ==
  {u \in Processed :
     /\ 200 <= ResultOf(u).status /\ ResultOf(u).status < 300
     /\ ~CanonicalElsewhere(ResultOf(u).body)}

\* C20: a step that processes a batch starts a redirect round exactly when
\* the batch gave unvisited same-host redirect targets, and the round fetches
\* those targets; when main is at the link loop every requested URL has been
\* processed and all_bodies holds the followable bodies not yet read by a
\* link extraction, those of redirect rounds included; no body is read by
\* two link extractions of a run.
C20_RedirectRoundsAccumulate ==
  /\ [][(pc \in BatchPcs /\ \A i \in 1..Len(tasks) : tasks[i].state = "done")
          => /\ (pc' \in {"seed_redirects", "wave_redirects"})
                  <=> (NewTargetKeys(tasks, visited_keys) # {})
             /\ [i \in 1..Len(tasks') |-> tasks'[i].url]
                  = [i \in 1..(Len(requested') - Len(requested)) |->
                       requested'[Len(requested) + i].url]
             /\ (pc' = "links") <=> (NewTargetKeys(tasks, visited_keys) = {})]_vars
  /\ [](pc = "links"
          => /\ Processed = RequestedUrls
             /\ {all_bodies[i].url : i \in 1..Len(all_bodies)}
                  = Followable \ {extracted[i] : i \in 1..Len(extracted)}
             /\ \A i \in 1..Len(all_bodies) :
                  all_bodies[i].body = ResultOf(all_bodies[i].url).body)
  /\ [](\A i, j \in 1..Len(extracted) : i # j => extracted[i] # extracted[j])

\* a finished run in which a redirect round ran, the body its target gave was
\* read by the link extraction, and a link found in it was requested
C20_Witness ==
  /\ pc = "done"
  /\ \E j, k \in 1..Len(requested) :
       /\ requested[j].via = "redirect" /\ requested[k].via = "link"
       /\ j < k
       /\ requested[j].url \in Followable
       /\ \E n \in 1..Len(extracted) : extracted[n] = requested[j].url
       /\ requested[k].url \in
            extract_internal_links(ResultOf(requested[j].url).body,
                                   requested[j].url, WEBSITE_URL)

\* the URL a reference found in a page stands for: a reference without a
\* host is on the host of the page
ResolvedAgainst(page_url, href) ==
  IF href.host = "" THEN Url(page_url.scheme, page_url.host, href.path, href.query)
  ELSE href

\* C21: the step that processes a batch keeps the body of a 2xx outcome for
\* link extraction unless its canonical link, resolved against the page,
\* is on another host than the crawl root: pages without a canonical, with a
\* canonical on the crawl root's host and with a host-less canonical are
\* kept.
C21_ExcludedOnlyWhenCanonicalElsewhere ==
  [][(pc \in BatchPcs /\ \A i \in 1..Len(tasks) : tasks[i].state = "done")
       => \A i \in 1..Len(tasks) :
            (200 <= tasks[i].result.status /\ tasks[i].result.status < 300)
              => LET canonical == tasks[i].result.body.canonical
                     kept == \E k \in 1..Len(all_bodies') :
                               all_bodies'[k] = [url |-> tasks[i].url,
                                                 body |-> tasks[i].result.body]
                 IN kept <=> (canonical = NoUrl
                                \/ ResolvedAgainst(tasks[i].url, canonical).host = SiteHost)
     ]_vars

\* the segments of a URL path that are not empty
Segments(path) == SelectSeq(Split(path, "/"), LAMBDA seg : seg # <<>>)

\* <statusCode>-<slug>.html
PageFileName(status_code, slug) == IntToStr(status_code) \o <<"-">> \o slug \o HtmlSuffix

\* C22 as stated: the file of a page is <directories>/<statusCode>-<slug>.html
\* where the slug is "index" when the path of the URL is empty or ends in a
\* slash and the last non-empty segment otherwise, the directories being the
\* segments before the slug.
C22_SlugIndexOnTrailingSlash ==
  probe.op = "find" =>
    LET path == probe.url.path
        segs == Segments(path)
        dirLike == path = <<>> \/ path[Len(path)] = "/"
        slug == IF dirLike THEN IndexSlug ELSE segs[Len(segs)]
        directories == IF dirLike THEN segs ELSE SubSeq(segs, 1, Len(segs) - 1)
    IN probe.written = FilePath(directories, PageFileName(probe.status, slug))

\* C22 as amended: the slug is "index" only when the path has no non-empty
\* segment (the empty path, "/"); otherwise it is the last non-empty segment,
\* a trailing slash being ignored, and the directories are the non-empty
\* segments before it other than ".".
C22_SlugIsLastSegment ==
  probe.op = "find" =>
    LET segs == Segments(probe.url.path)
        slug == IF segs = <<>> THEN IndexSlug ELSE segs[Len(segs)]
        before == IF segs = <<>> THEN <<>> ELSE SubSeq(segs, 1, Len(segs) - 1)
        directories == SelectSeq(before, LAMBDA seg : seg # <<".">>)
    IN probe.written = FilePath(directories, PageFileName(probe.status, slug))

\* /d/a/ was saved with status 404, as d/404-a.html
C22_Witness ==
  /\ probe.op = "find"
  /\ probe.url = P_das /\ probe.status = 404
  /\ probe.written = FilePath(<<<<"d">>>>, <<"4", "0", "4", "-", "a", ".", "h", "t", "m", "l">>)
  /\ probe.written \in files

\* C23: the directory never holds two page files of one path-key, whatever
\* save_page calls were made: a save of a key under another status replaces
\* the file of the earlier save.
C23_OneFilePerPathKey ==
  \A f, g \in PageFiles(files) : FileKey(f) = FileKey(g) => f = g

\* C24: after save_page(base_dir, u, s, body) the key load_existing_pages
\* derives from the file written for u is url_to_path_key(u), and the set it
\* returns for the directory holds that key.
C24_NamingAgreesWithPathKey ==
  probe.op = "find" =>
    /\ FileKey(probe.written) = url_to_path_key(probe.url)
    /\ url_to_path_key(probe.url) \in load_existing_pages(files)

\* C29: find_page_file(base_dir, url) gives not-found or a file whose key,
\* as load_existing_pages derives it, is url_to_path_key(url), whatever page
\* files the directory holds.
C29_FindsOwnPageOnly ==
  probe.op = "find" =>
    \/ probe.found = NotFound
    \/ FileKey(probe.found.path) = url_to_path_key(probe.url)

\* no outcome processed in the run so far is a redirect to the crawl root's
\* host
NoInternalRedirect ==
  \A u \in Processed :
    ~(/\ 300 <= ResultOf(u).status /\ ResultOf(u).status < 400
      /\ ResultOf(u).redirect_url # NoUrl
      /\ ResultOf(u).redirect_url.host = SiteHost)

\* the positions of the sitemap page URLs whose path-key is not on disk and
\* is not the key of an earlier sitemap page URL
FirstOfKey ==
  {i \in 1..Len(all_page_urls) :
     /\ url_to_path_key(all_page_urls[i]) \notin existing_keys
     /\ \A j \in 1..(i - 1) :
          url_to_path_key(all_page_urls[j]) # url_to_path_key(all_page_urls[i])}

\* C25: as long as no outcome is a same-domain redirect the run has requested
\* at most MAX_PAGES URLs; the seed step requests the sitemap URLs of the
\* first MAX_PAGES unvisited distinct path-keys, in sitemap order; a link
\* step requests at most the budget it began with, which is
\* MAX_PAGES + len(existing_keys) - len(visited_keys).
C25_BudgetHoldsWithoutRedirects ==
  /\ [](NoInternalRedirect => Len(requested) <= MAX_PAGES)
  /\ [][pc = "seeds"
          => LET n == IF Cardinality(FirstOfKey) > MAX_PAGES
                        THEN MAX_PAGES ELSE Cardinality(FirstOfKey)
             IN requested' =
                  requested \o
                    [k \in 1..n |->
                       [url |-> all_page_urls[CHOOSE i \in FirstOfKey :
                                                Cardinality({j \in FirstOfKey : j <= i}) = k],
                        via |-> "seed"]]]_vars
  /\ [](pc = "links" =>
          pages_remaining = MAX_PAGES + Cardinality(existing_keys) - Cardinality(visited_keys))
  /\ [][pc = "links"
          => /\ Len(requested') - Len(requested) <= pages_remaining \/ requested' = requested
             /\ \A i \in (Len(requested) + 1)..Len(requested') : requested'[i].via = "link"]_vars

\* a finished run without a same-domain redirect that used the whole budget
\* on a seed and a link wave, and left a link of a downloaded page unclaimed
C25_Witness ==
  /\ pc = "done"
  /\ NoInternalRedirect
  /\ Len(requested) = MAX_PAGES
  /\ \E i, j \in 1..Len(requested) : requested[i].via = "seed" /\ requested[j].via = "link"
  /\ \E u \in Followable :
       \E l \in ResultOf(u).body.links :
         l.host = SiteHost /\ url_to_path_key(l) \notin visited_keys

\* C26: when a run is at DONE every path-key it added to visited_keys (the
\* keys that were not taken from the directory at its start) is the key of a
\* URL the run handed to download_batch.
C26_VisitedKeysWereRequested ==
  pc = "done" => (visited_keys \ existing_keys) \subseteq RequestedKeys

\* the tasks of a batch whose outcome is a redirect to the crawl root's host
InternalRedirectTasks(ts) ==
  {i \in 1..Len(ts) :
     /\ 300 <= ts[i].result.status /\ ts[i].result.status < 400
     /\ ts[i].result.redirect_url # NoUrl
     /\ ts[i].result.redirect_url.host = SiteHost}

\* C27: in the step that processes a batch, a same-domain redirect whose
\* target has a path-key that is already in visited_keys queues nothing: no
\* URL of that key is among the URLs the step requests, and a target that
\* differs from its source only outside the path-key is never requested in
\* the run; every same-domain redirect adds one to the internal-redirect
\* counter, queued or not; and when the target has the key of its own source
\* the page files of that key are the one file of the 3xx response.
C27_SameKeyRedirectNotFollowed ==
  /\ [][(pc \in BatchPcs /\ \A i \in 1..Len(tasks) : tasks[i].state = "done")
          => /\ \A i \in InternalRedirectTasks(tasks) :
                  LET key == url_to_path_key(tasks[i].result.redirect_url)
                  IN /\ key \in visited_keys
                          => \A j \in (Len(requested) + 1)..Len(requested') :
                               url_to_path_key(requested'[j].url) # key
                     /\ key = url_to_path_key(tasks[i].url)
                          => {f \in PageFiles(files') : FileKey(f) = key}
                               = {get_page_path(tasks[i].url, tasks[i].result.status)}
             /\ stats'.internal_redirects
                  = stats.internal_redirects + Cardinality(InternalRedirectTasks(tasks))]_vars
  /\ [](\A u \in Processed :
          (/\ 300 <= ResultOf(u).status /\ ResultOf(u).status < 400
           /\ ResultOf(u).redirect_url # NoUrl
           /\ ResultOf(u).redirect_url.host = SiteHost
           /\ ResultOf(u).redirect_url # u
           /\ url_to_path_key(ResultOf(u).redirect_url) = url_to_path_key(u))
            => ResultOf(u).redirect_url \notin RequestedUrls)

\* a finished run whose two seeds /a and /b both redirected to /a/: nothing
\* else was requested, both redirects were counted, and the directory holds
\* the two 3xx responses
C27_Witness ==
  /\ pc = "done" /\ run = 1
  /\ [i \in 1..Len(requested) |-> requested[i].url] = <<U_a, U_b>>
  /\ ResultOf(U_a).status = 301 /\ ResultOf(U_a).redirect_url = U_as
  /\ ResultOf(U_b).status = 301 /\ ResultOf(U_b).redirect_url = U_as
  /\ stats.internal_redirects = 2
  /\ PageFiles(files) = {get_page_path(U_a, 301), get_page_path(U_b, 301)}

\* C28: every URL handed to download_batch is on the host of the crawl root,
\* whatever the sitemaps list, the pages link to and the redirects point to.
C28_RequestsStayOnHost ==
  \A i \in 1..Len(requested) : requested[i].url.host = WEBSITE_URL.host

\* C30: the step that processes a batch has the effect of the result loop
\* run over the outcomes in the order of the input URL list, whatever the
\* order in which the requests returned: the files, the counters and
\* visited_keys, the bodies kept (in input order) and the redirect targets
\* queued (in input order, the target of the first URL of the list winning a
\* path-key that two redirects share).
C30_EffectIndependentOfCompletionOrder ==
  [][(pc \in BatchPcs /\ \A i \in 1..Len(tasks) : tasks[i].state = "done")
       => LET b == download_batch(tasks, files, stats, visited_keys)
              kept == IF pc \in {"seed_redirects", "wave_redirects"}
                        THEN all_bodies ELSE <<>>
              new == [j \in 1..(Len(requested') - Len(requested)) |->
                        requested'[Len(requested) + j].url]
              \* the task whose redirect put the j-th new URL in the queue
              source(j) == CHOOSE i \in InternalRedirectTasks(tasks) :
                             /\ tasks[i].result.redirect_url = new[j]
                             /\ \A h \in InternalRedirectTasks(tasks) :
                                  tasks[h].result.redirect_url = new[j] => i <= h
          IN /\ [i \in 1..Len(tasks) |-> tasks[i].url]
                  = [i \in 1..Len(tasks) |->
                       requested[Len(requested) - Len(tasks) + i].url]
             /\ files' = b.files /\ stats' = b.stats /\ visited_keys' = b.visited_keys
             /\ all_bodies' = kept \o Bodies(b.downloaded)
             /\ new = b.redirect_targets
             /\ \A j \in 1..Len(new) :
                  /\ \E i \in InternalRedirectTasks(tasks) :
                       tasks[i].result.redirect_url = new[j]
                  /\ \A h \in InternalRedirectTasks(tasks) :
                       url_to_path_key(tasks[h].result.redirect_url) = url_to_path_key(new[j])
                         => source(j) <= h
                  /\ \A k \in 1..Len(new) : j < k => source(j) < source(k)
             /\ \A j, k \in (Len(kept) + 1)..Len(all_bodies') :
                  j < k => \E i, h \in 1..Len(tasks) :
                             /\ i < h
                             /\ tasks[i].url = all_bodies'[j].url
                             /\ tasks[h].url = all_bodies'[k].url
     ]_vars

\* the seeds /a and /b redirected to two URLs of the path-key c, the request
\* for /b returned before the one for /a, and the target of /a was queued
C30_Witness ==
  /\ pc = "seed_redirects"
  /\ gathered = <<U_b, U_a>>
  /\ [i \in 1..Len(requested) |-> requested[i].url] = <<U_a, U_b, H_c>>
  /\ ResultOf(U_a).redirect_url = H_c
  /\ ResultOf(U_b).redirect_url = U_c

====
